---- MODULE Spec2Model ----
(***************************************************************************)
(* Orientation solver of the Metahuman skeleton: quaternion primitives,    *)
(* the direction-to-direction quaternion, the per-frame reduction and the  *)
(* animation loop.  Real numbers are binary fixed-point integers with      *)
(* 2*HalfBits fractional bits (the value x is the integer x * ONE).        *)
(***************************************************************************)
EXTENDS Integers, Sequences, FiniteSets, TLC

\* ------------------------------------------------------------------------
\* Fixed-point arithmetic standing for numpy's float64
\* ------------------------------------------------------------------------
HalfBits == 13

RECURSIVE Pow2(_)
Pow2(n) == IF n = 0 THEN 1 ELSE 2 * Pow2(n - 1)

B == Pow2(HalfBits)
ONE == B * B

Abs(a) == IF a < 0 THEN 0 - a ELSE a

\* floor(a * b / ONE) for a, b >= 0, in 32-bit-safe pieces
MulFloor(a, b) ==
    LET ah == a \div B
        al == a % B
        bh == b \div B
        bl == b % B
    IN  ah * bh + ((ah * bl + al * bh) + (al * bl) \div B) \div B

\* a * b rounded to the nearest fixed-point value, a, b >= 0
MulAbs(a, b) ==
    LET ah == a \div B
        al == a % B
        bh == b \div B
        bl == b % B
    IN  ah * bh + ((ah * bl + al * bh) + (al * bl + ONE \div 2) \div B) \div B

fmul(a, b) == (IF (a < 0) = (b < 0) THEN 1 ELSE 0 - 1) * MulAbs(Abs(a), Abs(b))

\* long division, two fractional bits at a time (b < 2^29)
RECURSIVE DivLoop(_, _, _, _)
DivLoop(q, r, b, n) ==
    IF n = 0
    THEN q + (IF 2 * r >= b THEN 1 ELSE 0)
    ELSE DivLoop(4 * q + (4 * r) \div b, (4 * r) % b, b, n - 1)

\* a / b rounded to the nearest fixed-point value, b > 0
fdiv(a, b) ==
    (IF a < 0 THEN 0 - 1 ELSE 1) * DivLoop(Abs(a) \div b, Abs(a) % b, b, HalfBits)

RECURSIVE SqrtLoop(_, _, _)
SqrtLoop(r, bit, a) ==
    IF bit = 0
    THEN r
    ELSE IF MulFloor(r + bit, r + bit) <= a
         THEN SqrtLoop(r + bit, bit \div 2, a)
         ELSE SqrtLoop(r, bit \div 2, a)

\* np.sqrt on a value 0 <= a < 4
fsqrt(a) == SqrtLoop(0, ONE, a)


\* ------------------------------------------------------------------------
\* Vectors <<x, y, z>> and quaternions <<w, x, y, z>>
\* ------------------------------------------------------------------------
NORM_EPS_INV == 100000000
DOT_EPS_INV == 1000000

ZeroVec == <<0, 0, 0>>

dot(a, b) == fmul(a[1], b[1]) + fmul(a[2], b[2]) + fmul(a[3], b[3])

cross(a, b) ==
    << fmul(a[2], b[3]) - fmul(a[3], b[2]),
       fmul(a[3], b[1]) - fmul(a[1], b[3]),
       fmul(a[1], b[2]) - fmul(a[2], b[1]) >>

\* np.linalg.norm
norm(v) == fsqrt(fmul(v[1], v[1]) + fmul(v[2], v[2]) + fmul(v[3], v[3]))

MaxAbs(v) ==
    LET m == IF Abs(v[1]) >= Abs(v[2]) THEN Abs(v[1]) ELSE Abs(v[2])
    IN  IF m >= Abs(v[3]) THEN m ELSE Abs(v[3])

\* float64 keeps its relative precision for short vectors: the mantissa of a
\* non-zero vector is brought to [1/2, 1) before its length is taken
RECURSIVE Mantissa(_)
Mantissa(v) ==
    IF v = ZeroVec \/ 2 * MaxAbs(v) >= ONE
    THEN v
    ELSE Mantissa(<<2 * v[1], 2 * v[2], 2 * v[3]>>)

\* norm(v) < 1e-8, decided on the raw integers (true of no non-zero vector
\* once the resolution is coarser than 1e-8)
norm_below_eps(v) ==
    /\ MaxAbs(v) <= (ONE - 1) \div NORM_EPS_INV
    /\ (v[1] * v[1] + v[2] * v[2] + v[3] * v[3])
           * ((NORM_EPS_INV \div 10000) * (NORM_EPS_INV \div 10000))
       < (ONE \div 10000) * (ONE \div 10000)

\* `v / norm`
divide_by(v, n) == <<fdiv(v[1], n), fdiv(v[2], n), fdiv(v[3], n)>>

normalize_vector(v) ==
    IF norm_below_eps(v)
    THEN <<0, 0, ONE>>
    ELSE divide_by(Mantissa(v), norm(Mantissa(v)))

quaternion_multiply_reversed(q1, q2) ==
    << fmul(q1[1], q2[1]) - fmul(q1[2], q2[2]) - fmul(q1[3], q2[3]) - fmul(q1[4], q2[4]),
       fmul(q1[1], q2[2]) + fmul(q1[2], q2[1]) - fmul(q1[3], q2[4]) + fmul(q1[4], q2[3]),
       fmul(q1[1], q2[3]) + fmul(q1[2], q2[4]) + fmul(q1[3], q2[1]) - fmul(q1[4], q2[2]),
       fmul(q1[1], q2[4]) - fmul(q1[2], q2[3]) + fmul(q1[3], q2[2]) + fmul(q1[4], q2[1]) >>

quaternion_multiply(q1, q2) ==
    LET w1 == q1[1]
        x1 == q1[2]
        y1 == q1[3]
        z1 == q1[4]
        w2 == q2[1]
        x2 == q2[2]
        y2 == q2[3]
        z2 == q2[4]
    IN  << fmul(w1, w2) - fmul(x1, x2) - fmul(y1, y2) - fmul(z1, z2),
           fmul(w1, x2) + fmul(x1, w2) + fmul(y1, z2) - fmul(z1, y2),
           fmul(w1, y2) - fmul(x1, z2) + fmul(y1, w2) + fmul(z1, x2),
           fmul(w1, z2) + fmul(x1, y2) - fmul(y1, x2) + fmul(z1, w2) >>

quaternion_conjugate_unchanged(q) == q

quaternion_conjugate(q) == <<q[1], 0 - q[2], 0 - q[3], 0 - q[4]>>

\* np.clip(d, -1.0, 1.0)
clip(d) == IF d < 0 - ONE THEN 0 - ONE ELSE IF d > ONE THEN ONE ELSE d

\* cos(arccos(d) / 2) and sin(arccos(d) / 2) for -1 <= d <= 1
cos_half_theta(d) == fsqrt((ONE + d) \div 2)
sin_half_theta(d) == fsqrt((ONE - d) \div 2)

\* |x| < 1e-6
NearZero(x) == Abs(x) <= (ONE - 1) \div DOT_EPS_INV

\* the helper axis of the 180-degree branch
perp_axis(vec_from) ==
    IF Abs(dot(vec_from, <<ONE, 0, 0>>)) > 9 * (ONE \div 10)
    THEN <<0, 0, ONE>>
    ELSE <<ONE, 0, 0>>

\* `np.array([0.0, perp[0], perp[1], perp[2]])`
half_turn(perp) == <<0, perp[1], perp[2], perp[3]>>

rotation_axis_raw(v_from, v_to) == cross(v_from, v_to)

\* `axis = normalize_vector(cross_product)`
rotation_axis(v_from, v_to) == normalize_vector(cross(v_from, v_to))

\* the standard formula, from the axis and the cosine and sine of the half angle
axis_angle(axis, c, s) == <<c, fmul(axis[1], s), fmul(axis[2], s), fmul(axis[3], s)>>

\* the three branches, on the normalised vectors and their dot product
rotation(v_from, v_to, dot_product) ==
    IF NearZero(dot_product + ONE)
    THEN half_turn(perp_axis(v_from))
    ELSE IF NearZero(dot_product - ONE)
    THEN <<ONE, 0, 0, 0>>
    ELSE axis_angle(rotation_axis(v_from, v_to),
                    cos_half_theta(clip(dot_product)),
                    sin_half_theta(clip(dot_product)))

rotation_between_units(v_from, v_to) == rotation(v_from, v_to, dot(v_from, v_to))

quaternion_from_vectors_standard(v_from, v_to) ==
    rotation_between_units(normalize_vector(v_from), normalize_vector(v_to))

normalized_quaternion_raw(q) == q

\* `quaternion / np.linalg.norm(quaternion)`
normalized_quaternion(q) ==
    <<fdiv(q[1], fsqrt(fmul(q[1], q[1]) + fmul(q[2], q[2]) + fmul(q[3], q[3]) + fmul(q[4], q[4]))),
      fdiv(q[2], fsqrt(fmul(q[1], q[1]) + fmul(q[2], q[2]) + fmul(q[3], q[3]) + fmul(q[4], q[4]))),
      fdiv(q[3], fsqrt(fmul(q[1], q[1]) + fmul(q[2], q[2]) + fmul(q[3], q[3]) + fmul(q[4], q[4]))),
      fdiv(q[4], fsqrt(fmul(q[1], q[1]) + fmul(q[2], q[2]) + fmul(q[3], q[3]) + fmul(q[4], q[4])))>>

\* the three branches of the optimized method, on the normalised vectors,
\* their dot product and their cross product
rotation_optimized(v_from, dot_product, cross_product) ==
    IF NearZero(dot_product + ONE)
    THEN half_turn(perp_axis(v_from))
    ELSE IF NearZero(dot_product - ONE)
    THEN <<ONE, 0, 0, 0>>
    ELSE normalized_quaternion(
             <<ONE + dot_product, cross_product[1], cross_product[2], cross_product[3]>>)

quaternion_from_vectors_optimized(v_from, v_to) ==
    rotation_optimized(normalize_vector(v_from),
                       dot(normalize_vector(v_from), normalize_vector(v_to)),
                       cross(normalize_vector(v_from), normalize_vector(v_to)))

\* ------------------------------------------------------------------------
\* MetahumanSkeleton: the hardcoded tables and the reference directions
\* ------------------------------------------------------------------------
NumBones == 68

\* bone names, as sequences of characters (index 0 is the first entry)
BoneNameTable ==
    <<
       <<"r", "o", "o", "t">>,  \* 0 root
       <<"p", "e", "l", "v", "i", "s">>,  \* 1 pelvis
       <<"s", "p", "i", "n", "e", "_", "0", "1">>,  \* 2 spine_01
       <<"s", "p", "i", "n", "e", "_", "0", "2">>,  \* 3 spine_02
       <<"s", "p", "i", "n", "e", "_", "0", "3">>,  \* 4 spine_03
       <<"n", "e", "c", "k", "_", "0", "1">>,  \* 5 neck_01
       <<"h", "e", "a", "d">>,  \* 6 head
       <<"c", "l", "a", "v", "i", "c", "l", "e", "_", "l">>,  \* 7 clavicle_l
       <<"u", "p", "p", "e", "r", "a", "r", "m", "_", "l">>,  \* 8 upperarm_l
       <<"l", "o", "w", "e", "r", "a", "r", "m", "_", "l">>,  \* 9 lowerarm_l
       <<"h", "a", "n", "d", "_", "l">>,  \* 10 hand_l
       <<"t", "h", "u", "m", "b", "_", "0", "1", "_", "l">>,  \* 11 thumb_01_l
       <<"t", "h", "u", "m", "b", "_", "0", "2", "_", "l">>,  \* 12 thumb_02_l
       <<"t", "h", "u", "m", "b", "_", "0", "3", "_", "l">>,  \* 13 thumb_03_l
       <<"i", "n", "d", "e", "x", "_", "0", "1", "_", "l">>,  \* 14 index_01_l
       <<"i", "n", "d", "e", "x", "_", "0", "2", "_", "l">>,  \* 15 index_02_l
       <<"i", "n", "d", "e", "x", "_", "0", "3", "_", "l">>,  \* 16 index_03_l
       <<"m", "i", "d", "d", "l", "e", "_", "0", "1", "_", "l">>,  \* 17 middle_01_l
       <<"m", "i", "d", "d", "l", "e", "_", "0", "2", "_", "l">>,  \* 18 middle_02_l
       <<"m", "i", "d", "d", "l", "e", "_", "0", "3", "_", "l">>,  \* 19 middle_03_l
       <<"r", "i", "n", "g", "_", "0", "1", "_", "l">>,  \* 20 ring_01_l
       <<"r", "i", "n", "g", "_", "0", "2", "_", "l">>,  \* 21 ring_02_l
       <<"r", "i", "n", "g", "_", "0", "3", "_", "l">>,  \* 22 ring_03_l
       <<"p", "i", "n", "k", "y", "_", "0", "1", "_", "l">>,  \* 23 pinky_01_l
       <<"p", "i", "n", "k", "y", "_", "0", "2", "_", "l">>,  \* 24 pinky_02_l
       <<"p", "i", "n", "k", "y", "_", "0", "3", "_", "l">>,  \* 25 pinky_03_l
       <<"c", "l", "a", "v", "i", "c", "l", "e", "_", "r">>,  \* 26 clavicle_r
       <<"u", "p", "p", "e", "r", "a", "r", "m", "_", "r">>,  \* 27 upperarm_r
       <<"l", "o", "w", "e", "r", "a", "r", "m", "_", "r">>,  \* 28 lowerarm_r
       <<"h", "a", "n", "d", "_", "r">>,  \* 29 hand_r
       <<"t", "h", "u", "m", "b", "_", "0", "1", "_", "r">>,  \* 30 thumb_01_r
       <<"t", "h", "u", "m", "b", "_", "0", "2", "_", "r">>,  \* 31 thumb_02_r
       <<"t", "h", "u", "m", "b", "_", "0", "3", "_", "r">>,  \* 32 thumb_03_r
       <<"i", "n", "d", "e", "x", "_", "0", "1", "_", "r">>,  \* 33 index_01_r
       <<"i", "n", "d", "e", "x", "_", "0", "2", "_", "r">>,  \* 34 index_02_r
       <<"i", "n", "d", "e", "x", "_", "0", "3", "_", "r">>,  \* 35 index_03_r
       <<"m", "i", "d", "d", "l", "e", "_", "0", "1", "_", "r">>,  \* 36 middle_01_r
       <<"m", "i", "d", "d", "l", "e", "_", "0", "2", "_", "r">>,  \* 37 middle_02_r
       <<"m", "i", "d", "d", "l", "e", "_", "0", "3", "_", "r">>,  \* 38 middle_03_r
       <<"r", "i", "n", "g", "_", "0", "1", "_", "r">>,  \* 39 ring_01_r
       <<"r", "i", "n", "g", "_", "0", "2", "_", "r">>,  \* 40 ring_02_r
       <<"r", "i", "n", "g", "_", "0", "3", "_", "r">>,  \* 41 ring_03_r
       <<"p", "i", "n", "k", "y", "_", "0", "1", "_", "r">>,  \* 42 pinky_01_r
       <<"p", "i", "n", "k", "y", "_", "0", "2", "_", "r">>,  \* 43 pinky_02_r
       <<"p", "i", "n", "k", "y", "_", "0", "3", "_", "r">>,  \* 44 pinky_03_r
       <<"t", "h", "i", "g", "h", "_", "l">>,  \* 45 thigh_l
       <<"c", "a", "l", "f", "_", "l">>,  \* 46 calf_l
       <<"f", "o", "o", "t", "_", "l">>,  \* 47 foot_l
       <<"b", "a", "l", "l", "_", "l">>,  \* 48 ball_l
       <<"t", "h", "i", "g", "h", "_", "r">>,  \* 49 thigh_r
       <<"c", "a", "l", "f", "_", "r">>,  \* 50 calf_r
       <<"f", "o", "o", "t", "_", "r">>,  \* 51 foot_r
       <<"b", "a", "l", "l", "_", "r">>,  \* 52 ball_r
       <<"i", "k", "_", "f", "o", "o", "t", "_", "r", "o", "o", "t">>,  \* 53 ik_foot_root
       <<"i", "k", "_", "f", "o", "o", "t", "_", "l">>,  \* 54 ik_foot_l
       <<"i", "k", "_", "f", "o", "o", "t", "_", "r">>,  \* 55 ik_foot_r
       <<"i", "k", "_", "h", "a", "n", "d", "_", "r", "o", "o", "t">>,  \* 56 ik_hand_root
       <<"i", "k", "_", "h", "a", "n", "d", "_", "g", "u", "n">>,  \* 57 ik_hand_gun
       <<"i", "k", "_", "h", "a", "n", "d", "_", "l">>,  \* 58 ik_hand_l
       <<"i", "k", "_", "h", "a", "n", "d", "_", "r">>,  \* 59 ik_hand_r
       <<"j", "a", "w">>,  \* 60 jaw
       <<"e", "y", "e", "_", "l">>,  \* 61 eye_l
       <<"e", "y", "e", "_", "r">>,  \* 62 eye_r
       <<"b", "r", "e", "a", "s", "t", "_", "l">>,  \* 63 breast_l
       <<"b", "r", "e", "a", "s", "t", "_", "r">>,  \* 64 breast_r
       <<"t", "w", "i", "s", "t", "_", "0", "1", "_", "t", "h", "i", "g", "h", "_", "l">>,  \* 65 twist_01_thigh_l
       <<"t", "w", "i", "s", "t", "_", "0", "1", "_", "t", "h", "i", "g", "h", "_", "r">>,  \* 66 twist_01_thigh_r
       <<"t", "w", "i", "s", "t", "_", "0", "1", "_", "u", "p", "p", "e", "r", "a", "r", "m", "_", "l">>  \* 67 twist_01_upperarm_l
    >>

ParentIndexTable ==
    <<
       -1, 0, 1, 2, 3, 4, 5, 4, 7, 8, 9, 10,
       11, 12, 10, 14, 15, 10, 17, 18, 10, 20, 21, 10,
       23, 24, 4, 26, 27, 28, 29, 30, 31, 29, 33, 34,
       29, 36, 37, 29, 39, 40, 29, 42, 43, 1, 45, 46,
       47, 1, 49, 50, 51, 0, 53, 53, 0, 56, 56, 56,
       6, 6, 6, 4, 4, 45, 49, 8
    >>

s_root == <<"r", "o", "o", "t">>
s_pelvis == <<"p", "e", "l", "v", "i", "s">>
s_spine == <<"s", "p", "i", "n", "e">>
s_neck == <<"n", "e", "c", "k">>
s_head == <<"h", "e", "a", "d">>
s_clavicle == <<"c", "l", "a", "v", "i", "c", "l", "e">>
s_upperarm == <<"u", "p", "p", "e", "r", "a", "r", "m">>
s_lowerarm == <<"l", "o", "w", "e", "r", "a", "r", "m">>
s_hand == <<"h", "a", "n", "d">>
s_thumb == <<"t", "h", "u", "m", "b">>
s_index == <<"i", "n", "d", "e", "x">>
s_middle == <<"m", "i", "d", "d", "l", "e">>
s_ring == <<"r", "i", "n", "g">>
s_pinky == <<"p", "i", "n", "k", "y">>
s_thigh == <<"t", "h", "i", "g", "h">>
s_calf == <<"c", "a", "l", "f">>
s_foot == <<"f", "o", "o", "t">>
s_ball == <<"b", "a", "l", "l">>
s_jaw == <<"j", "a", "w">>
s_eye_l == <<"e", "y", "e", "_", "l">>
s_eye_r == <<"e", "y", "e", "_", "r">>
s_breast == <<"b", "r", "e", "a", "s", "t">>
s_twist == <<"t", "w", "i", "s", "t">>
s_ik == <<"i", "k", "_">>
s_l == <<"_", "l">>

VARIABLES
    bone_names,        \* MetahumanSkeleton.bone_names
    parent_indices,    \* MetahumanSkeleton.parent_indices
    pc,                \* where the solver is: "idle", "frame_loop", "bone_loop", "returned", "raised"
    call,              \* the entry point the caller used
    arg,               \* the caller's input array: [shape, data]
    world_positions,   \* the frame world_to_local_quaternions is working on
    frame_idx,         \* loop variable of process_animation_sequence
    bone_idx,          \* loop variable of world_to_local_quaternions
    world_quaternions, \* per-call buffer of world orientations
    local_quaternions, \* per-call output buffer
    result,            \* output array of process_animation_sequence
    ret,               \* the value handed back to the caller
    frame_calls,       \* world_to_local_quaternions invocations made by this call
    after_reject,      \* TRUE when the previous call was rejected
    vec_from,          \* arguments and result of a direct call of
    vec_to,            \*   quaternion_from_vectors_standard
    vec_q,
    error,             \* the exception type of the last raise, "none" without one
    xml_doc,           \* the document given to QuaternionSolverXML
    xml_status,        \* "none", "ready" (constructed) or "failed" (constructor raised)
    links,             \* QuaternionSolverXML.links
    joints,            \* QuaternionSolverXML.joints
    root_links         \* the root links validate_structure found

\* Python's `pat in name` on strings
Contains(name, pat) ==
    \E i \in 1..(Len(name) - Len(pat) + 1) : SubSeq(name, i, i + Len(pat) - 1) = pat

Fingers == {s_thumb, s_index, s_middle, s_ring, s_pinky}

ContainsFinger(name) == \E finger \in Fingers : Contains(name, finger)

DirUp == <<0, ONE, 0>>
DirDown == <<0, 0 - ONE, 0>>
DirLeft == <<0 - ONE, 0, 0>>
DirRight == <<ONE, 0, 0>>
DirForward == <<0, 0, ONE>>
DirThumbLeft == <<0 - fdiv(1, 2), 0, fdiv(866, 1000)>>
DirThumbRight == <<fdiv(1, 2), 0, fdiv(866, 1000)>>

Side_left(child_name, left, right) == left

\* left or right by the "_l" test on the child name
Side(child_name, left, right) == IF Contains(child_name, s_l) THEN left ELSE right

\* what the twist branch stands for until the parent connection is looked up
FollowParent == <<>>

\* the if/elif cascade on the two names: the direction of the first branch
\* that matches, FollowParent when that branch is the twist branch
classify_connection(parent_name, child_name) ==
    IF parent_name = s_root /\ child_name = s_pelvis
    THEN DirUp
    ELSE IF /\ Contains(parent_name, s_spine)
            /\ (Contains(child_name, s_spine) \/ Contains(child_name, s_neck))
    THEN DirUp
    ELSE IF Contains(parent_name, s_neck) /\ Contains(child_name, s_head)
    THEN DirUp
    ELSE IF Contains(parent_name, s_spine) /\ Contains(child_name, s_clavicle)
    THEN Side(child_name, DirLeft, DirRight)
    ELSE IF Contains(parent_name, s_clavicle) /\ Contains(child_name, s_upperarm)
    THEN Side(child_name, DirLeft, DirRight)
    ELSE IF \/ (Contains(parent_name, s_upperarm) /\ Contains(child_name, s_lowerarm))
            \/ (Contains(parent_name, s_lowerarm) /\ Contains(child_name, s_hand))
    THEN Side(child_name, DirLeft, DirRight)
    ELSE IF Contains(parent_name, s_hand) /\ ContainsFinger(child_name)
    THEN IF Contains(child_name, s_thumb)
         THEN Side(child_name, DirThumbLeft, DirThumbRight)
         ELSE Side(child_name, DirLeft, DirRight)
    ELSE IF ContainsFinger(parent_name) /\ ContainsFinger(child_name)
    THEN IF Contains(parent_name, s_thumb)
         THEN Side(child_name, DirThumbLeft, DirThumbRight)
         ELSE Side(child_name, DirLeft, DirRight)
    ELSE IF Contains(parent_name, s_pelvis) /\ Contains(child_name, s_thigh)
    THEN DirDown
    ELSE IF \/ (Contains(parent_name, s_thigh) /\ Contains(child_name, s_calf))
            \/ (Contains(parent_name, s_calf) /\ Contains(child_name, s_foot))
    THEN DirDown
    ELSE IF Contains(parent_name, s_foot) /\ Contains(child_name, s_ball)
    THEN DirForward
    ELSE IF Contains(parent_name, s_head) /\ child_name \in {s_jaw, s_eye_l, s_eye_r}
    THEN IF child_name = s_jaw THEN DirDown ELSE DirForward
    ELSE IF Contains(parent_name, s_spine) /\ Contains(child_name, s_breast)
    THEN DirForward
    ELSE IF Contains(child_name, s_twist)
    THEN FollowParent
    ELSE IF Contains(parent_name, s_ik) \/ Contains(child_name, s_ik)
    THEN DirUp
    ELSE DirUp

\* the range check of the first line of get_tpose_parent_to_child_direction
index_out_of_range(names, parent_index, child_index) ==
    \/ parent_index < 0
    \/ child_index < 0
    \/ parent_index >= Len(names)
    \/ child_index >= Len(names)

main_parent_index_none(parents, parent_index) == 0 - 1

\* `self.parent_indices[parent_index] if parent_index > 0 else -1`
main_parent_index(parents, parent_index) ==
    IF parent_index > 0 THEN parents[parent_index + 1] ELSE 0 - 1

\* the classification, over a skeleton's two tables
RECURSIVE tpose_direction(_, _, _, _)
tpose_direction(names, parents, parent_index, child_index) ==
    IF index_out_of_range(names, parent_index, child_index)
    THEN DirUp
    ELSE IF classify_connection(names[parent_index + 1], names[child_index + 1]) # FollowParent
    THEN classify_connection(names[parent_index + 1], names[child_index + 1])
    ELSE IF main_parent_index(parents, parent_index) >= 0
    THEN tpose_direction(names, parents, main_parent_index(parents, parent_index), parent_index)
    ELSE DirUp

\* the activations of get_tpose_parent_to_child_direction one call makes,
\* itself included
RECURSIVE tpose_activations(_, _, _, _)
tpose_activations(names, parents, parent_index, child_index) ==
    IF index_out_of_range(names, parent_index, child_index)
    THEN 1
    ELSE IF classify_connection(names[parent_index + 1], names[child_index + 1]) # FollowParent
    THEN 1
    ELSE IF main_parent_index(parents, parent_index) >= 0
    THEN 1 + tpose_activations(names, parents,
                 main_parent_index(parents, parent_index), parent_index)
    ELSE 1

direction_of_table_connection(parent_index, child_index) ==
    IF \/ index_out_of_range(bone_names, parent_index, child_index)
       \/ parent_indices[child_index + 1] # parent_index
    THEN <<>>
    ELSE tpose_direction(bone_names, parent_indices, parent_index, child_index)

get_tpose_parent_to_child_direction(parent_index, child_index) ==
    tpose_direction(bone_names, parent_indices, parent_index, child_index)

\* ------------------------------------------------------------------------
\* Input arrays
\* ------------------------------------------------------------------------
ZeroQuat == <<0, 0, 0, 0>>
NoValue == <<>>

\* np.zeros((n, 4))
zeros(n) == [i \in 1..n |-> ZeroQuat]

\* depth of a joint in the hardcoded tree
RECURSIVE Depth(_)
Depth(i) == IF ParentIndexTable[i + 1] < 0 THEN 0 ELSE 1 + Depth(ParentIndexTable[i + 1])

scale(v, k) == <<fmul(v[1], k), fmul(v[2], k), fmul(v[3], k)>>
add(a, b) == <<a[1] + b[1], a[2] + b[2], a[3] + b[3]>>
sub(a, b) == <<a[1] - b[1], a[2] - b[2], a[3] - b[3]>>

\* the reference direction of connection c of the hardcoded skeleton
RefDir ==
    [c \in 1..(NumBones - 1) |->
        tpose_direction(BoneNameTable, ParentIndexTable, ParentIndexTable[c + 1], c)]

OffsetKinds == {"tpose", "anti", "zero", "skew"}

\* bone lengths and oblique bone vectors used by the input frames
BoneLength(c) == IF c % 2 = 0 THEN fdiv(1, 4) ELSE fdiv(1, 2)
SkewVec == <<fdiv(3, 16), 0 - fdiv(1, 8), fdiv(1, 4)>>
SkewVecOdd == <<0 - fdiv(1, 4), fdiv(3, 16), fdiv(1, 8)>>

\* the bone vector parent -> child that an input frame gives connection c
Offset(kind, c) ==
    CASE kind \in {"tpose", "anti"} ->
            scale(RefDir[c], (IF kind = "tpose" THEN 1 ELSE 0 - 1) * BoneLength(c))
      [] kind = "zero" -> ZeroVec
      [] kind = "skew" -> IF c % 2 = 0 THEN SkewVec ELSE SkewVecOdd

\* a pattern gives the offset kind of the connections at even and at odd depth
Patterns == OffsetKinds \X OffsetKinds

RECURSIVE PositionOf(_, _, _)
PositionOf(pattern, root_pos, c) ==
    IF c = 0
    THEN root_pos
    ELSE add(PositionOf(pattern, root_pos, ParentIndexTable[c + 1]),
             Offset(pattern[(Depth(c) % 2) + 1], c))

FrameOf(pattern, root_pos) == [i \in 1..NumBones |-> PositionOf(pattern, root_pos, i - 1)]

RootPositions == {ZeroVec}

\* an array as numpy sees it
Array(shape, data) == [shape |-> shape, data |-> data]

ValidFrames ==
    {Array(<<NumBones, 3>>, FrameOf(p, r)) : p \in Patterns, r \in RootPositions}

\* arrays world_to_local_quaternions must reject
Reshaped(f) ==
    { Array(<<NumBones - 1, 3>>, SubSeq(f, 1, NumBones - 1)),
      Array(<<NumBones + 1, 3>>, Append(f, ZeroVec)),
      Array(<<NumBones, 2>>, [i \in 1..NumBones |-> <<f[i][1], f[i][2]>>]),
      Array(<<3, NumBones>>, <<>>) }

BadFrames == Reshaped(FrameOf(<<"tpose", "tpose">>, ZeroVec))

MaxFrames == 2

\* the frames animations are made of: a pose, the pose with the pelvis and
\* the joints from ik_foot_root on moved, and the pose moved as a whole
AnimationFrames ==
    { FrameOf(<<"skew", "anti">>, ZeroVec),
      [i \in 1..NumBones |->
          IF (i - 1) \in ({1} \cup 53..(NumBones - 1))
          THEN add(PositionOf(<<"skew", "anti">>, ZeroVec, i - 1), SkewVec)
          ELSE PositionOf(<<"skew", "anti">>, ZeroVec, i - 1)],
      FrameOf(<<"skew", "anti">>, <<fdiv(1, 2), 0 - fdiv(1, 4), ONE>>) }

ValidAnimations ==
    UNION { { Array(<<n, NumBones, 3>>, d) : d \in [1..n -> AnimationFrames] } : n \in 0..MaxFrames }

\* animations whose frames have the shape of a rejected frame
BadAnimations ==
    { Array(<<n>> \o b.shape, [i \in 1..n |-> b.data]) : n \in 0..MaxFrames, b \in BadFrames }

\* vectors handed to quaternion_from_vectors_standard directly
VecInputs ==
    { ZeroVec, DirUp, DirDown, DirLeft, DirRight, DirForward,
      DirThumbLeft, scale(DirThumbLeft, 0 - fdiv(1, 2)),
      <<fdiv(6, 10), fdiv(8, 10), 0>>, <<0 - fdiv(3, 10), 0 - fdiv(4, 10), 0>>,
      <<fdiv(19, 20), fdiv(1, 10), 0>>, <<0 - fdiv(19, 10), 0 - fdiv(1, 5), 0>>,
      SkewVec, scale(SkewVec, 0 - ONE) }

\* ------------------------------------------------------------------------
\* QuaternionSolver
\* ------------------------------------------------------------------------
compute_bone_orientation_reversed(bone_index, bone_pos, child_index, child_pos) ==
    quaternion_from_vectors_standard(
        get_tpose_parent_to_child_direction(bone_index, child_index),
        normalize_vector(sub(bone_pos, child_pos)))

compute_bone_orientation_absolute(bone_index, bone_pos, child_index, child_pos) ==
    quaternion_from_vectors_standard(
        get_tpose_parent_to_child_direction(bone_index, child_index),
        normalize_vector(child_pos))

compute_bone_orientation(bone_index, bone_pos, child_index, child_pos) ==
    LET current_bone_direction == normalize_vector(sub(child_pos, bone_pos))
        initial_bone_direction ==
            get_tpose_parent_to_child_direction(bone_index, child_index)
    IN  quaternion_from_vectors_standard(initial_bone_direction, current_bone_direction)

\* ---- URDF documents and their parser (urdf_parser.py) ----

\* an element find() returns: absent, present without xyz, present with xyz
NoElem == [present |-> FALSE, has_xyz |-> FALSE, xyz |-> <<>>]
BareElem == [present |-> TRUE, has_xyz |-> FALSE, xyz |-> <<>>]
Xyz(tokens) == [present |-> TRUE, has_xyz |-> TRUE, xyz |-> tokens]

\* a <parent>/<child> element: absent, or present with its link attribute
\* ("" when the attribute is missing)
NoRef == [present |-> FALSE, link |-> ""]
LinkRef(name) == [present |-> TRUE, link |-> name]

LinkElem(name) == [name |-> name]
JointElem(name, type, parent, child, axis, origin, tpose) ==
    [name |-> name, type |-> type, parent |-> parent, child |-> child,
     axis |-> axis, origin |-> origin, tpose_direction |-> tpose]

\* the tokens float() accepts, and their values
FloatTokens == {"0", "1", "-1", "0.5"}
float(tok) ==
    CASE tok = "0" -> 0
      [] tok = "1" -> ONE
      [] tok = "-1" -> 0 - ONE
      [] tok = "0.5" -> ONE \div 2

\* an outcome: the value, or the exception raised
Ok(v) == [error |-> "none", value |-> v]
Raise(e) == [error |-> e, value |-> <<>>]

\* `np.array([float(x) for x in elem.get('xyz', default).split()])`
parse_xyz(elem, default) ==
    LET tokens == IF elem.has_xyz THEN elem.xyz ELSE default
    IN  IF \E i \in 1..Len(tokens) : tokens[i] \notin FloatTokens
        THEN Raise("ValueError")
        ELSE Ok([i \in 1..Len(tokens) |-> float(tokens[i])])

RECURSIVE parse_links_unchecked(_, _, _)
parse_links_unchecked(elems, i, acc) ==
    IF i > Len(elems)
    THEN [error |-> "none", value |-> acc]
    ELSE parse_links_unchecked(elems, i + 1,
             Append(acc, [name |-> elems[i].name, index |-> i - 1]))

\* _parse_links: the links before the first one without a name
RECURSIVE parse_links(_, _, _)
parse_links(elems, i, acc) ==
    IF i > Len(elems)
    THEN Ok(acc)
    ELSE IF elems[i].name = ""
         THEN Raise("ValueError")
         ELSE parse_links(elems, i + 1, Append(acc, [name |-> elems[i].name, index |-> i - 1]))

\* the body of the loop of _parse_joints
parse_joint(e) ==
    IF e.name = "" \/ e.type = ""
    THEN Raise("ValueError")
    ELSE IF ~e.parent.present \/ ~e.child.present
    THEN Raise("ValueError")
    ELSE IF e.parent.link = "" \/ e.child.link = ""
    THEN Raise("ValueError")
    ELSE LET axis == IF e.axis.present
                     THEN parse_xyz(e.axis, <<"0", "0", "1">>)
                     ELSE Ok(<<0, 0, ONE>>)
             origin == IF e.origin.present
                       THEN parse_xyz(e.origin, <<"0", "0", "0">>)
                       ELSE Ok(<<>>)
             tpose == IF e.tpose_direction.present
                      THEN parse_xyz(e.tpose_direction, <<"0", "1", "0">>)
                      ELSE Ok(<<0, ONE, 0>>)
         IN  IF axis.error # "none" THEN axis
             ELSE IF origin.error # "none" THEN origin
             ELSE IF tpose.error # "none" THEN tpose
             ELSE Ok([name |-> e.name,
                      joint_type |-> e.type,
                      parent_link |-> e.parent.link,
                      child_link |-> e.child.link,
                      parent_index |-> 0 - 1,
                      child_index |-> 0 - 1,
                      axis |-> axis.value,
                      tpose_direction |-> tpose.value,
                      has_origin |-> e.origin.present,
                      origin |-> origin.value])

RECURSIVE parse_joints(_, _, _)
parse_joints(elems, i, acc) ==
    IF i > Len(elems)
    THEN Ok(acc)
    ELSE LET j == parse_joint(elems[i])
         IN  IF j.error # "none"
             THEN j
             ELSE parse_joints(elems, i + 1, Append(acc, j.value))

\* `{link.name: link.index for link in self.links}`: the last link of a name wins
link_names(lks) == {lks[i].name : i \in 1..Len(lks)}
link_name_to_index(lks, name) ==
    CHOOSE k \in 0..(Len(lks) - 1) :
        /\ lks[k + 1].name = name
        /\ \A m \in (k + 1)..(Len(lks) - 1) : lks[m + 1].name # name

\* _create_indices
RECURSIVE create_indices(_, _, _, _)
create_indices(lks, jts, i, acc) ==
    IF i > Len(jts)
    THEN Ok(acc)
    ELSE IF jts[i].parent_link \notin link_names(lks)
    THEN Raise("ValueError")
    ELSE IF jts[i].child_link \notin link_names(lks)
    THEN Raise("ValueError")
    ELSE create_indices(lks, jts, i + 1,
             Append(acc, [jts[i] EXCEPT
                            !.parent_index = link_name_to_index(lks, jts[i].parent_link),
                            !.child_index = link_name_to_index(lks, jts[i].child_link)]))

\* URDFParser.__init__ / parse_urdf: the links and joints, or the exception
parse_urdf(doc) ==
    IF doc.file = "missing" THEN Raise("FileNotFoundError")
    ELSE IF doc.file = "malformed" THEN Raise("ValueError")
    ELSE IF doc.root_tag # "robot" THEN Raise("ValueError")
    ELSE LET lks == parse_links(doc.links, 1, <<>>)
         IN  IF lks.error # "none" THEN lks
             ELSE LET jts == parse_joints(doc.joints, 1, <<>>)
                  IN  IF jts.error # "none" THEN jts
                      ELSE LET idx == create_indices(lks.value, jts.value, 1, <<>>)
                           IN  IF idx.error # "none" THEN idx
                               ELSE Ok([links |-> lks.value, joints |-> idx.value])

\* validate_structure: the links no joint has as its child
find_root_links(lks, jts) ==
    {lks[i].index : i \in {k \in 1..Len(lks) :
                              \A j \in 1..Len(jts) : jts[j].child_index # lks[k].index}}

validate_structure_one_root(lks, jts) ==
    /\ Cardinality(find_root_links(lks, jts)) = 1
    /\ \A j \in 1..Len(jts) :
           /\ jts[j].parent_index \in 0..(Len(lks) - 1)
           /\ jts[j].child_index \in 0..(Len(lks) - 1)

\* validate_structure: a wrong number of roots is only printed
validate_structure(lks, jts) ==
    \A j \in 1..Len(jts) :
        /\ ~(jts[j].parent_index < 0 \/ jts[j].parent_index >= Len(lks))
        /\ ~(jts[j].child_index < 0 \/ jts[j].child_index >= Len(lks))

\* QuaternionSolverXML.__init__
construct_xml(doc) ==
    LET p == parse_urdf(doc)
    IN  IF p.error # "none" THEN p
        ELSE IF ~validate_structure(p.value.links, p.value.joints)
        THEN Raise("ValueError")
        ELSE p

\* ---- the URDF documents handed to QuaternionSolverXML ----

UpTokens == <<"0", "1", "0">>
RightTokens == <<"1", "0", "0">>

Document(links_, joints_) ==
    [file |-> "ok", root_tag |-> "robot", links |-> links_, joints |-> joints_]

\* a joint element with parent, child and tpose_direction
Joint(name, parent, child, tpose) ==
    JointElem(name, "fixed", LinkRef(parent), LinkRef(child), NoElem, NoElem, Xyz(tpose))

ThreeLinks == <<LinkElem("root"), LinkElem("pelvis"), LinkElem("spine")>>
TwoLinks == <<LinkElem("root"), LinkElem("pelvis")>>

ChainDoc ==
    Document(ThreeLinks, <<Joint("j1", "root", "pelvis", UpTokens),
                           Joint("j2", "pelvis", "spine", UpTokens)>>)

\* documents the parser accepts
GoodDocs ==
    { ChainDoc,
      \* a single link and no joint
      Document(<<LinkElem("root")>>, <<>>),
      \* two children of the root
      Document(ThreeLinks, <<Joint("j1", "root", "pelvis", UpTokens),
                             Joint("j2", "root", "spine", RightTokens)>>),
      \* the child's joint listed before its parent's
      Document(ThreeLinks, <<Joint("j2", "pelvis", "spine", RightTokens),
                             Joint("j1", "root", "pelvis", UpTokens)>>),
      \* no axis, origin or tpose_direction element; elements without xyz
      Document(TwoLinks, <<JointElem("j1", "revolute", LinkRef("root"), LinkRef("pelvis"),
                                     NoElem, NoElem, NoElem)>>),
      Document(TwoLinks, <<JointElem("j1", "revolute", LinkRef("root"), LinkRef("pelvis"),
                                     BareElem, BareElem, BareElem)>>),
      \* two roots, no root, a joint from a link to itself
      Document(ThreeLinks, <<Joint("j1", "root", "pelvis", UpTokens)>>),
      Document(TwoLinks, <<Joint("j1", "root", "pelvis", UpTokens),
                           Joint("j2", "pelvis", "root", UpTokens)>>),
      Document(<<LinkElem("root")>>, <<Joint("j1", "root", "root", UpTokens)>>),
      \* two links of one name
      Document(<<LinkElem("root"), LinkElem("pelvis"), LinkElem("pelvis")>>,
               <<Joint("j1", "root", "pelvis", UpTokens)>>),
      \* vectors of two, four and no components
      Document(TwoLinks, <<Joint("j1", "root", "pelvis", <<"0", "1">>)>>),
      Document(TwoLinks, <<Joint("j1", "root", "pelvis", <<"0", "1", "0", "0">>)>>),
      Document(TwoLinks, <<Joint("j1", "root", "pelvis", <<>>)>>),
      Document(TwoLinks, <<JointElem("j1", "fixed", LinkRef("root"), LinkRef("pelvis"),
                                     Xyz(<<"0", "1">>), Xyz(<<"0", "0", "0", "0">>),
                                     Xyz(UpTokens))>>),
      \* nothing at all
      Document(<<>>, <<>>) }

\* documents the parser rejects
BadDocs ==
    { [file |-> "missing", root_tag |-> "", links |-> <<>>, joints |-> <<>>],
      [file |-> "malformed", root_tag |-> "", links |-> <<>>, joints |-> <<>>],
      [ChainDoc EXCEPT !.root_tag = "skeleton"],
      Document(<<LinkElem("root"), LinkElem("")>>, <<>>),
      Document(TwoLinks, <<JointElem("", "fixed", LinkRef("root"), LinkRef("pelvis"),
                                     NoElem, NoElem, NoElem)>>),
      Document(TwoLinks, <<JointElem("j1", "", LinkRef("root"), LinkRef("pelvis"),
                                     NoElem, NoElem, NoElem)>>),
      Document(TwoLinks, <<JointElem("j1", "fixed", NoRef, LinkRef("pelvis"),
                                     NoElem, NoElem, NoElem)>>),
      Document(TwoLinks, <<JointElem("j1", "fixed", LinkRef("root"), NoRef,
                                     NoElem, NoElem, NoElem)>>),
      Document(TwoLinks, <<JointElem("j1", "fixed", LinkRef("root"), LinkRef(""),
                                     NoElem, NoElem, NoElem)>>),
      Document(TwoLinks, <<Joint("j1", "nowhere", "pelvis", UpTokens)>>),
      Document(TwoLinks, <<Joint("j1", "root", "nowhere", UpTokens)>>),
      Document(TwoLinks, <<Joint("j1", "root", "pelvis", <<"0", "up", "0">>)>>),
      Document(TwoLinks, <<JointElem("j1", "fixed", LinkRef("root"), LinkRef("pelvis"),
                                     Xyz(<<"x", "0", "0">>), NoElem, NoElem)>>),
      Document(TwoLinks, <<JointElem("j1", "fixed", LinkRef("root"), LinkRef("pelvis"),
                                     NoElem, Xyz(<<"0", "0", "zero">>), NoElem)>>) }

Docs == GoodDocs \cup BadDocs

\* ---- QuaternionSolverXML (quaternion_solver_xml.py) ----

\* 1 / atol of np.allclose
ATOL_INV == 100000000

\* `np.allclose(root_pos, np.zeros(3))`
allclose_zero(v) == \A i \in 1..Len(v) : Abs(v[i]) <= (ONE - 1) \div ATOL_INV

\* norm(v) < 1e-8 for a vector of any length
RECURSIVE all_below_eps(_)
all_below_eps(v) ==
    IF Len(v) <= 3
    THEN norm_below_eps(v \o [i \in 1..(3 - Len(v)) |-> 0])
    ELSE Head(v) = 0 /\ all_below_eps(Tail(v))

\* compute_joint_orientation for a joint of the list: np.dot needs vectors of
\* one length, and normalize_vector answers a short vector with (0, 0, 1)
compute_joint_orientation(joint, parent_pos, child_pos) ==
    IF Len(joint.tpose_direction) # 3 /\ ~all_below_eps(joint.tpose_direction)
    THEN Raise("ValueError")
    ELSE Ok(quaternion_from_vectors_standard(
                IF Len(joint.tpose_direction) # 3 THEN ZeroVec ELSE joint.tpose_direction,
                normalize_vector(sub(child_pos, parent_pos))))

\* the root row: identity at the origin, else compute_joint_orientation(None, ...)
\* reads `joint.name` of None
root_orientation(root_pos) ==
    IF allclose_zero(root_pos)
    THEN Ok(<<ONE, 0, 0, 0>>)
    ELSE Raise("AttributeError")

\* the loop over the joints, up to the first exception
RECURSIVE joint_rows(_, _, _, _), next_row(_, _, _, _, _)
joint_rows(jts, positions, i, acc) ==
    IF i > Len(jts)
    THEN Ok(acc)
    ELSE next_row(jts, positions, i, acc,
                  compute_joint_orientation(jts[i],
                      positions[jts[i].parent_index + 1],
                      positions[jts[i].child_index + 1]))

\* `local_quaternions[joint_idx+1] = local_quat`, unless the joint raised
next_row(jts, positions, i, acc, q) ==
    IF q.error # "none"
    THEN q
    ELSE joint_rows(jts, positions, i + 1, Append(acc, q.value))

\* the shape checks of the two entry points
xml_frame_shape_ok(lks, shape) == shape = <<Len(lks), 3>>

\* QuaternionSolverXML.world_to_local_quaternions, the whole call
xml_world_to_local_quaternions(lks, jts, a) ==
    IF ~xml_frame_shape_ok(lks, a.shape)
    THEN Raise("ValueError")
    ELSE IF Len(lks) = 0
    THEN Raise("IndexError")
    ELSE IF root_orientation(a.data[1]).error # "none"
    THEN root_orientation(a.data[1])
    ELSE joint_rows(jts, a.data, 1, <<root_orientation(a.data[1]).value>>)

\* `result[frame_idx] = ...`: numpy accepts as many rows as the target has, or one
assignable(rows, target_rows) == rows = target_rows \/ rows = 1

\* positions given to the links of a loaded document
XmlPoints == { ZeroVec, <<0, ONE \div 2, 0>>, <<ONE \div 4, 0, 0 - (ONE \div 4)>> }

XmlFrames(n) ==
    { Array(<<n, 3>>, d) :
        d \in { f \in [1..n -> XmlPoints] : \A i \in 2..n : f[i] # ZeroVec \/ i = n } }

XmlBadFrames(n) ==
    { Array(<<n + 1, 3>>, [i \in 1..(n + 1) |-> ZeroVec]),
      Array(<<n, 2>>, [i \in 1..n |-> <<0, 0>>]),
      Array(<<n, 3, 1>>, <<>>) }
    \cup (IF n > 0 THEN {Array(<<n - 1, 3>>, [i \in 1..(n - 1) |-> ZeroVec])} ELSE {})

XmlAnimationFrames(n) ==
    { [i \in 1..n |-> IF i = 1 THEN ZeroVec ELSE <<0, ONE \div 2, 0>>],
      [i \in 1..n |-> IF i = 1 THEN ZeroVec ELSE <<ONE \div 4, 0, 0 - (ONE \div 4)>>] }

XmlAnimations(n) ==
    UNION { { Array(<<k, n, 3>>, d) : d \in [1..k -> XmlAnimationFrames(n)] } : k \in 0..MaxFrames }

XmlBadAnimations(n) ==
    { Array(<<k>> \o b.shape, [i \in 1..k |-> b.data]) : k \in 0..MaxFrames, b \in XmlBadFrames(n) }

skeletonVars == <<bone_names, parent_indices>>
callVars == <<call, arg, ret, frame_calls, after_reject, error>>
xmlVars == <<xml_doc, xml_status, links, joints, root_links>>
vecVars == <<vec_from, vec_to, vec_q>>
loopVars == <<world_positions, frame_idx, bone_idx, world_quaternions, local_quaternions, result>>
vars == <<skeletonVars, pc, callVars, loopVars, vecVars, xmlVars>>

Init ==
    /\ bone_names = BoneNameTable
    /\ parent_indices = ParentIndexTable
    /\ pc = "idle"
    /\ call = "none"
    /\ arg = NoValue
    /\ world_positions = NoValue
    /\ frame_idx = 0
    /\ bone_idx = 0
    /\ world_quaternions = NoValue
    /\ local_quaternions = NoValue
    /\ result = NoValue
    /\ ret = NoValue
    /\ frame_calls = 0
    /\ after_reject = FALSE
    /\ vec_from = NoValue
    /\ vec_to = NoValue
    /\ vec_q = NoValue
    /\ error = "none"
    /\ xml_doc = NoValue
    /\ xml_status = "none"
    /\ links = <<>>
    /\ joints = <<>>
    /\ root_links = {}

parent_connection_index_same(parent_idx) == parent_idx

\* `parent_connection_idx = parent_idx - 1`
parent_connection_index(parent_idx) == parent_idx - 1

frame_at_first(data, idx) == data[1]

\* `animation_data[frame_idx]`
frame_at(data, idx) == data[idx + 1]

RaiseValueErrorClobbering ==
    /\ pc' = "raised"
    /\ error' = "ValueError"
    /\ bone_names' = bone_names
    /\ parent_indices' = <<>>

\* `raise ValueError(...)`: the call ends, the solver object is left as it was
RaiseValueError ==
    /\ pc' = "raised"
    /\ error' = "ValueError"
    /\ UNCHANGED skeletonVars

\* the caller is between calls
CanCall == pc \in {"idle", "returned", "raised"}

frame_shape_rows_only(shape) == Head(shape) = NumBones

\* `world_positions.shape != (68, 3)`, negated
frame_shape_ok(shape) == shape = <<NumBones, 3>>

\* a direct call of world_to_local_quaternions
WorldToLocalCall ==
    /\ xml_status = "none"
    /\ CanCall
    /\ \E a \in ValidFrames \cup BadFrames :
        /\ arg' = a
        /\ call' = "world_to_local_quaternions"
        /\ after_reject' = (pc = "raised")
        /\ ret' = NoValue
        /\ result' = NoValue
        /\ frame_idx' = 0
        /\ IF frame_shape_ok(a.shape)
           THEN /\ pc' = "bone_loop"
                /\ world_positions' = a.data
                /\ local_quaternions' = zeros(NumBones - 1)
                /\ world_quaternions' = zeros(NumBones - 1)
                /\ bone_idx' = 1
                /\ frame_calls' = 1
                /\ error' = "none"
                /\ UNCHANGED skeletonVars
           ELSE /\ RaiseValueError
                /\ world_positions' = NoValue
                /\ local_quaternions' = NoValue
                /\ world_quaternions' = NoValue
                /\ bone_idx' = 0
                /\ frame_calls' = 1
    /\ UNCHANGED <<vecVars, xmlVars>>

\* process_animation_sequence up to its loop: the shape check and np.zeros
ProcessAnimationCall ==
    /\ xml_status = "none"
    /\ CanCall
    /\ \E a \in ValidAnimations \cup BadAnimations :
        /\ arg' = a
        /\ call' = "process_animation_sequence"
        /\ after_reject' = (pc = "raised")
        /\ ret' = NoValue
        /\ frame_idx' = 0
        /\ frame_calls' = 0
        /\ world_positions' = NoValue
        /\ local_quaternions' = NoValue
        /\ world_quaternions' = NoValue
        /\ bone_idx' = 0
        /\ IF frame_shape_ok(Tail(a.shape))
           THEN /\ pc' = "frame_loop"
                /\ result' = [i \in 1..Head(a.shape) |-> zeros(NumBones - 1)]
                /\ error' = "none"
                /\ UNCHANGED skeletonVars
           ELSE /\ RaiseValueError
                /\ result' = NoValue
    /\ UNCHANGED <<vecVars, xmlVars>>

\* `self.world_to_local_quaternions(animation_data[frame_idx])`, up to its loop
FrameCall ==
    /\ pc = "frame_loop"
    /\ frame_idx < Head(arg.shape)
    /\ frame_calls' = frame_calls + 1
    /\ IF frame_shape_ok(Tail(arg.shape))
       THEN /\ pc' = "bone_loop"
            /\ world_positions' = frame_at(arg.data, frame_idx)
            /\ local_quaternions' = zeros(NumBones - 1)
            /\ world_quaternions' = zeros(NumBones - 1)
            /\ bone_idx' = 1
            /\ UNCHANGED <<skeletonVars, error>>
       ELSE /\ RaiseValueError
            /\ UNCHANGED <<world_positions, local_quaternions, world_quaternions, bone_idx>>
    /\ UNCHANGED <<vecVars, xmlVars, call, arg, ret, after_reject, frame_idx, result>>

\* `return result`
ProcessAnimationReturn ==
    /\ pc = "frame_loop"
    /\ frame_idx = Head(arg.shape)
    /\ pc' = "returned"
    /\ ret' = result
    /\ UNCHANGED <<skeletonVars, vecVars, xmlVars, call, arg, frame_calls, after_reject, error, loopVars>>

local_quaternion_from_first(parent_idx, world_quat, world_written) ==
    IF parent_idx = 0
    THEN world_quat
    ELSE quaternion_multiply(quaternion_conjugate(world_written[1]), world_quat)

\* the local quaternion of a connection, from its world orientation and the
\* buffer of world orientations it has just been written to
local_quaternion(parent_idx, world_quat, world_written) ==
    IF parent_idx = 0
    THEN world_quat
    ELSE IF parent_connection_index(parent_idx) >= 0
         THEN quaternion_multiply(
                  quaternion_conjugate(world_written[parent_connection_index(parent_idx) + 1]),
                  world_quat)
         ELSE world_quat

connection_index_same(bone_index) == bone_index

\* `connection_idx = bone_idx - 1`
connection_index(bone_index) == bone_index - 1

store_local_only(connection_idx, parent_idx, world_quat) ==
    /\ world_quaternions' = world_quaternions
    /\ local_quaternions' =
           [local_quaternions EXCEPT ![connection_idx + 1] =
               local_quaternion(parent_idx, world_quat, world_quaternions)]

\* `world_quaternions[connection_idx] = world_quat` and
\* `local_quaternions[connection_idx] = local_quat`
store_connection(connection_idx, parent_idx, world_quat) ==
    /\ world_quaternions' = [world_quaternions EXCEPT ![connection_idx + 1] = world_quat]
    /\ local_quaternions' =
           [local_quaternions EXCEPT ![connection_idx + 1] =
               local_quaternion(parent_idx, world_quat,
                   [world_quaternions EXCEPT ![connection_idx + 1] = world_quat])]

\* one iteration of `for bone_idx in range(1, 68)`
BoneStep ==
    /\ pc = "bone_loop"
    /\ bone_idx < NumBones
    /\ LET parent_idx == parent_indices[bone_idx + 1]
           parent_pos == world_positions[parent_idx + 1]
           child_pos == world_positions[bone_idx + 1]
       IN  store_connection(connection_index(bone_idx), parent_idx,
               compute_bone_orientation(parent_idx, parent_pos, bone_idx, child_pos))
    /\ bone_idx' = bone_idx + 1
    /\ UNCHANGED <<skeletonVars, vecVars, xmlVars, pc, callVars, world_positions, frame_idx, result>>

\* `return local_quaternions`, to the caller or into process_animation_sequence
WorldToLocalReturn ==
    /\ pc = "bone_loop"
    /\ bone_idx = NumBones
    /\ IF call = "world_to_local_quaternions"
       THEN /\ pc' = "returned"
            /\ ret' = local_quaternions
            /\ UNCHANGED <<result, frame_idx>>
       ELSE /\ pc' = "frame_loop"
            /\ result' = [result EXCEPT ![frame_idx + 1] = local_quaternions]
            /\ frame_idx' = frame_idx + 1
            /\ UNCHANGED ret
    /\ UNCHANGED <<skeletonVars, vecVars, xmlVars, call, arg, frame_calls, after_reject, error,
                   world_positions, bone_idx, world_quaternions, local_quaternions>>

\* `QuaternionSolverXML(path)`: a program that loads its skeleton from a document
ConstructXML ==
    /\ pc = "idle"
    /\ call = "none"
    /\ xml_status = "none"
    /\ \E doc \in Docs :
        \E s \in {construct_xml(doc)} :
            /\ xml_doc' = doc
            /\ error' = s.error
            /\ IF s.error = "none"
               THEN /\ xml_status' = "ready"
                    /\ links' = s.value.links
                    /\ joints' = s.value.joints
                    /\ root_links' = find_root_links(s.value.links, s.value.joints)
               ELSE /\ xml_status' = "failed"
                    /\ links' = <<>>
                    /\ joints' = <<>>
                    /\ root_links' = {}
    /\ UNCHANGED <<skeletonVars, pc, call, arg, ret, frame_calls, after_reject, loopVars, vecVars>>

\* a direct call of QuaternionSolverXML.world_to_local_quaternions
XMLWorldToLocalCall ==
    /\ xml_status = "ready"
    /\ CanCall
    /\ \E a \in XmlFrames(Len(links)) \cup XmlBadFrames(Len(links)) :
        \E r \in {xml_world_to_local_quaternions(links, joints, a)} :
            /\ arg' = a
            /\ call' = "xml_world_to_local_quaternions"
            /\ after_reject' = (pc = "raised")
            /\ frame_calls' = 1
            /\ error' = r.error
            /\ pc' = IF r.error = "none" THEN "returned" ELSE "raised"
            /\ ret' = r.value
            /\ result' = NoValue
            /\ frame_idx' = 0
    /\ UNCHANGED <<skeletonVars, xmlVars, vecVars, world_positions, bone_idx,
                   world_quaternions, local_quaternions>>

\* QuaternionSolverXML.process_animation_sequence up to its loop
XMLProcessAnimationCall ==
    /\ xml_status = "ready"
    /\ CanCall
    /\ \E a \in XmlAnimations(Len(links)) \cup XmlBadAnimations(Len(links)) :
        /\ arg' = a
        /\ call' = "xml_process_animation_sequence"
        /\ after_reject' = (pc = "raised")
        /\ ret' = NoValue
        /\ frame_idx' = 0
        /\ frame_calls' = 0
        /\ IF xml_frame_shape_ok(links, Tail(a.shape))
           THEN /\ pc' = "xml_frame_loop"
                /\ error' = "none"
                /\ result' = [i \in 1..Head(a.shape) |-> zeros(Len(joints))]
           ELSE /\ pc' = "raised"
                /\ error' = "ValueError"
                /\ result' = NoValue
    /\ UNCHANGED <<skeletonVars, xmlVars, vecVars, world_positions, bone_idx,
                   world_quaternions, local_quaternions>>

\* `result[frame_idx] = self.world_to_local_quaternions(animation_data[frame_idx])`
XMLFrameStep ==
    /\ pc = "xml_frame_loop"
    /\ frame_idx < Head(arg.shape)
    /\ frame_calls' = frame_calls + 1
    /\ \E r \in {xml_world_to_local_quaternions(links, joints,
                    Array(Tail(arg.shape), frame_at(arg.data, frame_idx)))} :
           IF r.error # "none"
           THEN /\ pc' = "raised"
                /\ error' = r.error
                /\ UNCHANGED <<result, frame_idx>>
           ELSE IF ~assignable(Len(r.value), Len(joints))
           THEN /\ pc' = "raised"
                /\ error' = "ValueError"
                /\ UNCHANGED <<result, frame_idx>>
           ELSE /\ result' = [result EXCEPT ![frame_idx + 1] =
                                 IF Len(r.value) = Len(joints)
                                 THEN r.value
                                 ELSE [i \in 1..Len(joints) |-> r.value[1]]]
                /\ frame_idx' = frame_idx + 1
                /\ UNCHANGED <<pc, error>>
    /\ UNCHANGED <<skeletonVars, xmlVars, vecVars, call, arg, ret, after_reject,
                   world_positions, bone_idx, world_quaternions, local_quaternions>>

\* `return result` of QuaternionSolverXML.process_animation_sequence
XMLProcessAnimationReturn ==
    /\ pc = "xml_frame_loop"
    /\ frame_idx = Head(arg.shape)
    /\ pc' = "returned"
    /\ ret' = result
    /\ UNCHANGED <<skeletonVars, xmlVars, vecVars, call, arg, frame_calls, after_reject,
                   error, loopVars>>

Next ==
    \/ WorldToLocalCall
    \/ BoneStep
    \/ WorldToLocalReturn
    \/ ProcessAnimationCall
    \/ FrameCall
    \/ ProcessAnimationReturn
    \/ ConstructXML
    \/ XMLWorldToLocalCall
    \/ XMLProcessAnimationCall
    \/ XMLFrameStep
    \/ XMLProcessAnimationReturn

Spec == Init /\ [][Next]_vars

\* the same skeleton with the joints calf_l (46) and foot_l (47) numbered the
\* other way round: foot_l's parent calf_l now has the larger index
RenumberedSkeleton ==
    LET renumber(i) == IF i = 46 THEN 47 ELSE IF i = 47 THEN 46 ELSE i
    IN  [bone_names |-> [i \in 1..NumBones |-> BoneNameTable[renumber(i - 1) + 1]],
         parent_indices |->
             [i \in 1..NumBones |-> renumber(ParentIndexTable[renumber(i - 1) + 1])]]

\* a solver whose skeleton carries the renumbered tables
InitRenumbered ==
    /\ bone_names = RenumberedSkeleton.bone_names
    /\ parent_indices = RenumberedSkeleton.parent_indices
    /\ pc = "idle"
    /\ call = "none"
    /\ arg = NoValue
    /\ world_positions = NoValue
    /\ frame_idx = 0
    /\ bone_idx = 0
    /\ world_quaternions = NoValue
    /\ local_quaternions = NoValue
    /\ result = NoValue
    /\ ret = NoValue
    /\ frame_calls = 0
    /\ after_reject = FALSE
    /\ vec_from = NoValue
    /\ vec_to = NoValue
    /\ vec_q = NoValue
    /\ error = "none"
    /\ xml_doc = NoValue
    /\ xml_status = "none"
    /\ links = <<>>
    /\ joints = <<>>
    /\ root_links = {}

SpecRenumbered == InitRenumbered /\ [][Next]_vars

\* a direct call of quaternion_from_vectors_standard
QuaternionFromVectorsCall ==
    /\ vec_q = NoValue
    /\ \E f \in VecInputs, t \in VecInputs :
        /\ vec_from' = f
        /\ vec_to' = t
        /\ vec_q' = quaternion_from_vectors_standard(f, t)
    /\ UNCHANGED <<skeletonVars, pc, callVars, loopVars, xmlVars>>

NextVec == QuaternionFromVectorsCall

children_from_first(parents, bone_index, i, acc) ==
    IF \E k \in 1..Len(parents) : parents[k] = bone_index
    THEN <<(CHOOSE k \in 1..Len(parents) :
               /\ parents[k] = bone_index
               /\ \A m \in 1..(k - 1) : parents[m] # bone_index) - 1>>
    ELSE <<>>

\* the loop of get_children from list position i on
RECURSIVE children_from(_, _, _, _)
children_from(parents, bone_index, i, acc) ==
    IF i >= Len(parents)
    THEN acc
    ELSE children_from(parents, bone_index, i + 1,
             IF parents[i + 1] = bone_index THEN Append(acc, i) ELSE acc)

\* MetahumanSkeleton.get_children
get_children(bone_index) == children_from(parent_indices, bone_index, 0, <<>>)

\* the indices handed to the skeleton's queries: every joint and some beyond
BoneIndexInputs == (0 - 2)..(NumBones + 1)

\* a call of MetahumanSkeleton.get_children
GetChildrenCall ==
    /\ pc = "idle"
    /\ \E b \in BoneIndexInputs :
        /\ call' = "get_children"
        /\ arg' = Array(<<>>, b)
        /\ ret' = get_children(b)
        /\ pc' = "returned"
    /\ UNCHANGED <<skeletonVars, frame_calls, after_reject, error, loopVars, vecVars, xmlVars>>

\* a call of MetahumanSkeleton.get_tpose_parent_to_child_direction
GetDirectionCall ==
    /\ pc = "idle"
    /\ \E p \in BoneIndexInputs, c \in BoneIndexInputs :
        /\ call' = "get_tpose_parent_to_child_direction"
        /\ arg' = Array(<<2>>, <<p, c>>)
        /\ ret' = get_tpose_parent_to_child_direction(p, c)
        /\ pc' = "returned"
    /\ UNCHANGED <<skeletonVars, frame_calls, after_reject, error, loopVars, vecVars, xmlVars>>

NextSkeleton ==
    \/ GetChildrenCall
    \/ GetDirectionCall

SpecSkeleton == Init /\ [][NextSkeleton]_vars

SpecVec == Init /\ [][NextVec]_vars

\* a direct call of quaternion_from_vectors_optimized
QuaternionFromVectorsOptimizedCall ==
    /\ pc = "idle"
    /\ \E f \in VecInputs, t \in VecInputs :
        /\ vec_from' = f
        /\ vec_to' = t
        /\ vec_q' = quaternion_from_vectors_optimized(f, t)
    /\ call' = "quaternion_from_vectors_optimized"
    /\ pc' = "returned"
    /\ UNCHANGED <<skeletonVars, arg, ret, frame_calls, after_reject, error, loopVars, xmlVars>>

\* the quaternions handed to quaternion_multiply: the units 1, i, j, k, some
\* rotations and some quaternions that are not unit
QuaternionInputs ==
    { <<ONE, 0, 0, 0>>, <<0, ONE, 0, 0>>, <<0, 0, ONE, 0>>, <<0, 0, 0, ONE>>,
      <<0, 0 - ONE, 0, 0>>, <<0, 0, 0 - ONE, 0>>, <<0, 0, 0, 0 - ONE>>,
      quaternion_from_vectors_standard(DirUp, SkewVec),
      quaternion_conjugate(quaternion_from_vectors_standard(DirUp, SkewVec)),
      quaternion_from_vectors_standard(DirThumbLeft, DirForward),
      quaternion_conjugate(quaternion_from_vectors_standard(DirThumbLeft, DirForward)),
      <<fdiv(1, 2), fdiv(3, 4), 0 - fdiv(1, 4), fdiv(5, 4)>>,
      <<fdiv(1, 2), 0 - fdiv(3, 4), fdiv(1, 4), 0 - fdiv(5, 4)>>,
      ZeroQuat }

\* a direct call of quaternion_multiply
QuaternionMultiplyCall ==
    /\ pc = "idle"
    /\ \E q1 \in QuaternionInputs, q2 \in QuaternionInputs :
        /\ arg' = Array(<<2, 4>>, <<q1, q2>>)
        /\ ret' = quaternion_multiply(q1, q2)
    /\ call' = "quaternion_multiply"
    /\ pc' = "returned"
    /\ UNCHANGED <<skeletonVars, frame_calls, after_reject, error, loopVars, vecVars, xmlVars>>

\* direct calls of the solver's quaternion methods
SpecMethods == Init /\ [][QuaternionFromVectorsOptimizedCall \/ QuaternionMultiplyCall]_vars

\* ------------------------------------------------------------------------
\* Properties
\* ------------------------------------------------------------------------
QuatClose(a, b) == \A k \in 1..4 : NearZero(a[k] - b[k])
VecClose(a, b) == \A k \in 1..3 : NearZero(a[k] - b[k])

quat_norm(q) == fsqrt(fmul(q[1], q[1]) + fmul(q[2], q[2]) + fmul(q[3], q[3]) + fmul(q[4], q[4]))

IsUnitQuat(q) == NearZero(quat_norm(q) - ONE)

dot4(a, b) == fmul(a[1], b[1]) + fmul(a[2], b[2]) + fmul(a[3], b[3]) + fmul(a[4], b[4])

\* the image q * v * conj(q) of the vector v under the rotation q
Rotate(q, v) ==
    LET r == quaternion_multiply(quaternion_multiply(q, <<0, v[1], v[2], v[3]>>),
                                 quaternion_conjugate(q))
    IN  <<r[2], r[3], r[4]>>

VecCalled == vec_q # NoValue

\* the branch a direct call took
VecDot == dot(normalize_vector(vec_from), normalize_vector(vec_to))
VecAntiparallel == NearZero(VecDot + ONE)
VecParallel == ~VecAntiparallel /\ NearZero(VecDot - ONE)

\* C3: for non-zero from and to, the quaternion returned by
\* quaternion_from_vectors_standard rotates normalize(from) onto normalize(to),
\* in the parallel, the antiparallel and the general branch.
C3_MapsFromOntoTo ==
    (VecCalled /\ vec_from # ZeroVec /\ vec_to # ZeroVec)
        => VecClose(Rotate(vec_q, normalize_vector(vec_from)), normalize_vector(vec_to))

\* C4: for every antiparallel pair the returned quaternion has w = 0 and a
\* vector part that is a unit vector orthogonal to from.
C4_FallbackAxisOrthogonal ==
    (VecCalled /\ VecAntiparallel)
        => /\ vec_q[1] = 0
           /\ NearZero(norm(<<vec_q[2], vec_q[3], vec_q[4]>>) - ONE)
           /\ NearZero(dot(<<vec_q[2], vec_q[3], vec_q[4]>>, normalize_vector(vec_from)))

\* C5: in the antiparallel branch the result is (0, a) with a the normalized
\* cross product of from with the helper axis, (1,0,0) unless
\* |dot(from, (1,0,0))| > 0.9 and then (0,0,1).
C5_FallbackIsHelperCross ==
    (VecCalled /\ VecAntiparallel)
        => LET f == normalize_vector(vec_from)
               a == normalize_vector(cross(f, perp_axis(f)))
           IN  vec_q = <<0, a[1], a[2], a[3]>>

\* a direct call of world_to_local_quaternions has returned
FrameReturned == pc = "returned" /\ call = "world_to_local_quaternions"
AnimationReturned == pc = "returned" /\ call = "process_animation_sequence"

Connections == 1..(NumBones - 1)

\* the bone vector of connection c in a frame, and its cosine with the reference direction
BoneVector(frame, c) == sub(frame[c + 1], frame[parent_indices[c + 1] + 1])
BoneCosine(frame, c) ==
    dot(normalize_vector(get_tpose_parent_to_child_direction(parent_indices[c + 1], c)),
        normalize_vector(BoneVector(frame, c)))

\* C1: every quaternion returned by world_to_local_quaternions for a (68, 3)
\* input has norm 1 within 1e-6, zero-length, antiparallel and parallel bones
\* included.
C1_UnitNorm ==
    FrameReturned => \A i \in Connections : IsUnitQuat(ret[i])

C1_Witness ==
    /\ FrameReturned
    /\ \E c \in Connections : BoneVector(arg.data, c) = ZeroVec
    /\ \E c \in Connections :
           BoneVector(arg.data, c) # ZeroVec /\ NearZero(BoneCosine(arg.data, c) + ONE)

\* every joint sits at its parent plus a positive multiple of the reference direction
IsTPose(frame) ==
    \A c \in Connections :
        LET ref == get_tpose_parent_to_child_direction(parent_indices[c + 1], c)
            v == BoneVector(frame, c)
        IN  /\ dot(v, ref) > 0
            /\ VecClose(cross(v, ref), ZeroVec)

\* C2: on a frame in T-pose every returned quaternion is (1,0,0,0) within tolerance.
C2_IdentityOnTPose ==
    (FrameReturned /\ IsTPose(arg.data))
        => \A i \in Connections : QuatClose(ret[i], <<ONE, 0, 0, 0>>)

C2_Witness == FrameReturned /\ IsTPose(arg.data)

\* the local quaternions of one frame, written as a function of the frame
FrameSolution(frame) ==
    LET W == [c \in 1..(NumBones - 1) |->
                 compute_bone_orientation(parent_indices[c + 1], frame[parent_indices[c + 1] + 1],
                                          c, frame[c + 1])]
    IN  [i \in 1..(NumBones - 1) |->
            IF parent_indices[i + 1] = 0
            THEN W[i]
            ELSE quaternion_multiply(quaternion_conjugate(W[parent_indices[i + 1]]), W[i])]

\* C6: the local quaternion of a connection whose parent is the root is its
\* world orientation; otherwise it is conjugate(W_parent) * W_this, with
\* W_parent the world orientation of the connection whose child is the parent.
C6_LocalFromParentWorld ==
    FrameReturned => ret = FrameSolution(arg.data)

C6_Witness ==
    /\ FrameReturned
    /\ \E c \in Connections :
           /\ parent_indices[c + 1] # 0
           /\ world_quaternions[parent_indices[c + 1]] # <<ONE, 0, 0, 0>>
           /\ ret[c] # world_quaternions[c]

\* the world orientations recomposed from the locals, root down
RECURSIVE Recomposed(_, _)
Recomposed(locals, c) ==
    IF parent_indices[c + 1] = 0
    THEN locals[c]
    ELSE quaternion_multiply(Recomposed(locals, parent_indices[c + 1]), locals[c])

WorldOrientation(frame, c) ==
    compute_bone_orientation(parent_indices[c + 1], frame[parent_indices[c + 1] + 1],
                             c, frame[c + 1])

\* C7: the world orientation of the parent connection times the local
\* quaternion gives back the world orientation of the connection, and the
\* locals recomposed from the root down give every world orientation, within
\* tolerance.
C7_RoundTrip ==
    FrameReturned =>
        \A c \in Connections :
            /\ parent_indices[c + 1] # 0 =>
                   QuatClose(quaternion_multiply(
                                 WorldOrientation(arg.data, parent_indices[c + 1]), ret[c]),
                             WorldOrientation(arg.data, c))
            /\ QuatClose(Recomposed(ret, c), WorldOrientation(arg.data, c))

C7_Witness ==
    /\ FrameReturned
    /\ \E c \in Connections :
           /\ parent_indices[c + 1] # 0
           /\ ~QuatClose(ret[c], WorldOrientation(arg.data, c))

\* a call whose argument has not the shape its solver expects
WrongFrameShape ==
    \/ call = "world_to_local_quaternions" /\ arg.shape # <<NumBones, 3>>
    \/ call = "xml_world_to_local_quaternions" /\ arg.shape # <<Len(links), 3>>
WrongAnimationShape ==
    \/ call = "process_animation_sequence" /\ Tail(arg.shape) # <<NumBones, 3>>
    \/ call = "xml_process_animation_sequence" /\ Tail(arg.shape) # <<Len(links), 3>>

\* C8: world_to_local_quaternions on an array that is not (N, 3) raises and
\* returns no quaternions, and process_animation_sequence on frames that are
\* not (N, 3) raises before any call of world_to_local_quaternions, N being 68
\* for QuaternionSolver and len(links) for QuaternionSolverXML.
C8_ShapeValidation ==
    /\ WrongFrameShape => (pc = "raised" /\ error # "none" /\ ret = NoValue)
    /\ WrongAnimationShape =>
           (pc = "raised" /\ error # "none" /\ ret = NoValue /\ frame_calls = 0)

C8_Witness ==
    /\ call = "xml_process_animation_sequence"
    /\ WrongAnimationShape
    /\ Head(arg.shape) > 0
    /\ pc = "raised"

\* C9: a rejected call changes neither the skeleton nor the input, no call
\* changes them, and a valid call made after a rejected one returns what the
\* frame alone determines.
C9_NoSideEffects ==
    [][ /\ bone_names' = bone_names
        /\ parent_indices' = parent_indices
        /\ ~CanCall => arg' = arg
        /\ (pc' = "bone_loop" /\ call' = "world_to_local_quaternions")
               => world_positions' = arg'.data
        /\ (pc' = "bone_loop" /\ call' = "process_animation_sequence")
               => world_positions' = arg'.data[frame_idx' + 1]
        /\ (after_reject' /\ pc' = "returned" /\ call' = "world_to_local_quaternions")
               => ret' = FrameSolution(arg'.data)
        /\ (after_reject' /\ pc' = "returned" /\ call' = "process_animation_sequence")
               => ret' = [i \in 1..Head(arg'.shape) |-> FrameSolution(arg'.data[i])]
      ]_vars

C9_Witness ==
    /\ after_reject
    /\ pc = "returned"
    /\ call \in {"world_to_local_quaternions", "process_animation_sequence"}
    /\ Len(ret) > 0

\* C10: result[i] of process_animation_sequence is the solution of frame i
\* alone, in input order.
C10_FrameIndependence ==
    AnimationReturned =>
        /\ Len(ret) = Head(arg.shape)
        /\ \A i \in 1..Len(ret) : ret[i] = FrameSolution(arg.data[i])

C10_Witness ==
    /\ AnimationReturned
    /\ Len(ret) >= 2
    /\ ret[1] # ret[2]

\* C11: world_to_local_quaternions returns 67 rows, row i-1 holding the local
\* quaternion of the connection parent_indices[i] -> i for every child joint
\* i in 1..67, and an iteration of its loop writes the one row of its joint
\* and leaves every other row as it was.
C11_OutputConvention ==
    /\ [](FrameReturned =>
             /\ Len(ret) = NumBones - 1
             /\ \A i \in 1..(NumBones - 1) :
                    ret[(i - 1) + 1] =
                        IF parent_indices[i + 1] = 0
                        THEN WorldOrientation(arg.data, i)
                        ELSE quaternion_multiply(
                                 quaternion_conjugate(
                                     WorldOrientation(arg.data, parent_indices[i + 1])),
                                 WorldOrientation(arg.data, i)))
    /\ [][(pc = "bone_loop" /\ bone_idx' = bone_idx + 1) =>
              /\ Len(local_quaternions') = NumBones - 1
              /\ \A r \in 1..(NumBones - 1) :
                     r # (bone_idx - 1) + 1 => local_quaternions'[r] = local_quaternions[r]
              /\ \A r \in bone_idx..(NumBones - 1) : local_quaternions[r] = ZeroQuat
        ]_vars

C11_Witness ==
    /\ FrameReturned
    /\ \A i \in 1..(NumBones - 1) : ret[i] # ZeroQuat
    /\ \E i, j \in 1..(NumBones - 1) : ret[i] # ret[j]

\* calls of QuaternionSolverXML that have ended
XmlFrameReturned == pc = "returned" /\ call = "xml_world_to_local_quaternions"
XmlFrameEnded ==
    /\ call = "xml_world_to_local_quaternions"
    /\ pc \in {"returned", "raised"}
    /\ arg.shape = <<Len(links), 3>>
XmlAnimationEnded ==
    /\ call = "xml_process_animation_sequence"
    /\ pc \in {"returned", "raised"}
    /\ Tail(arg.shape) = <<Len(links), 3>>

\* C12: for a loaded topology and F >= 1 frames of shape (len(links), 3),
\* QuaternionSolverXML.process_animation_sequence returns without error, with
\* result[i] the value of world_to_local_quaternions on frame i.
C12_XmlAnimationCompletes ==
    (XmlAnimationEnded /\ Head(arg.shape) >= 1)
        => /\ pc = "returned"
           /\ Len(ret) = Head(arg.shape)
           /\ \A i \in 1..Len(ret) :
                  ret[i] = xml_world_to_local_quaternions(
                               links, joints, Array(Tail(arg.shape), arg.data[i])).value

\* C13: QuaternionSolverXML.world_to_local_quaternions returns one quaternion
\* per joint: len(joints) rows.
C13_XmlOneRowPerJoint ==
    XmlFrameReturned => Len(ret) = Len(joints)

\* the world orientation of joint j of the loaded topology in a frame
XmlWorldOrientation(frame, j) ==
    compute_joint_orientation(joints[j], frame[joints[j].parent_index + 1],
                              frame[joints[j].child_index + 1]).value

\* C14: the quaternion QuaternionSolverXML.world_to_local_quaternions returns
\* for a joint whose parent link is the child of another joint is
\* conjugate(parent world orientation) * world orientation.
C14_XmlLocalOrientation ==
    XmlFrameReturned =>
        \A j, p \in 1..Len(joints) :
            joints[p].child_index = joints[j].parent_index =>
                QuatClose(ret[j + 1],
                          quaternion_multiply(
                              quaternion_conjugate(XmlWorldOrientation(arg.data, p)),
                              XmlWorldOrientation(arg.data, j)))

\* C15: with the root position at the origin the root orientation is
\* (1,0,0,0); with any other root position the call succeeds and the root
\* orientation is the quaternion from (0,1,0) to the normalised root position.
C15_XmlRootOrientation ==
    (XmlFrameEnded /\ Len(links) > 0)
        => IF allclose_zero(arg.data[1])
           THEN pc = "returned" => ret[1] = <<ONE, 0, 0, 0>>
           ELSE /\ pc = "returned"
                /\ QuatClose(ret[1],
                             quaternion_from_vectors_standard(
                                 <<0, ONE, 0>>, normalize_vector(arg.data[1])))

\* C16: a topology whose number of root links is zero or more than one is
\* rejected: every constructed QuaternionSolverXML has exactly one root link.
C16_XmlOneRootOrFails ==
    xml_status = "ready" => Cardinality(root_links) = 1

\* the links one parent step above the links of S, and S closed under n steps
ParentLinks(S) ==
    {joints[j].parent_index : j \in {k \in 1..Len(joints) : joints[k].child_index \in S}}
RECURSIVE Climb(_, _)
Climb(S, n) == IF n = 0 THEN S ELSE Climb(S \cup ParentLinks(S), n - 1)

\* C17: the links and joints of a constructed QuaternionSolverXML form a
\* rooted tree: len(links) - 1 joints, every non-root link the child of
\* exactly one joint, no joint from a link to itself, and the root reached
\* from every link by parent steps, without a cycle.
C17_XmlRootedTree ==
    xml_status = "ready" =>
        /\ Len(joints) = Len(links) - 1
        /\ Cardinality(root_links) = 1
        /\ \A k \in 0..(Len(links) - 1) :
               k \notin root_links =>
                   Cardinality({j \in 1..Len(joints) : joints[j].child_index = k}) = 1
        /\ \A j \in 1..Len(joints) : joints[j].parent_index # joints[j].child_index
        /\ \A k \in 0..(Len(links) - 1) :
               /\ Climb({k}, Len(links)) \cap root_links # {}
               /\ k \notin Climb(ParentLinks({k}), Len(links))

\* what the document lacks: a robot root, a link name, a joint name or type,
\* a parent or child link name, or the link a joint names
DocLinkNames(doc) == {doc.links[i].name : i \in 1..Len(doc.links)}
DocDefect(doc) ==
    /\ doc.file = "ok"
    /\ \/ doc.root_tag # "robot"
       \/ \E i \in 1..Len(doc.links) : doc.links[i].name = ""
       \/ \E i \in 1..Len(doc.joints) :
              LET e == doc.joints[i]
              IN  \/ e.name = ""
                  \/ e.type = ""
                  \/ ~e.parent.present
                  \/ ~e.child.present
                  \/ e.parent.link = ""
                  \/ e.child.link = ""
                  \/ e.parent.link \notin DocLinkNames(doc)
                  \/ e.child.link \notin DocLinkNames(doc)

\* C18: construction fails, leaving no links or joints, when the root element
\* is not robot, a link has no name, a joint has no name or type, a joint
\* lacks a parent or child link name, or a joint names an unknown link; after
\* a successful construction parent_index and child_index of every joint are
\* positions of links named parent_link and child_link.
C18_ParserRejectsDefects ==
    /\ (xml_status # "none" /\ DocDefect(xml_doc))
           => (xml_status = "failed" /\ error # "none" /\ links = <<>> /\ joints = <<>>)
    /\ xml_status = "ready" =>
           \A j \in 1..Len(joints) :
               /\ joints[j].parent_index \in 0..(Len(links) - 1)
               /\ joints[j].child_index \in 0..(Len(links) - 1)
               /\ links[joints[j].parent_index + 1].name = joints[j].parent_link
               /\ links[joints[j].child_index + 1].name = joints[j].child_link
               /\ links[joints[j].parent_index + 1].index = joints[j].parent_index
               /\ links[joints[j].child_index + 1].index = joints[j].child_index

C18_Witness ==
    /\ xml_status = "failed"
    /\ xml_doc.file = "ok"
    /\ xml_doc.root_tag = "robot"
    /\ \A i \in 1..Len(xml_doc.links) : xml_doc.links[i].name # ""
    /\ \E i \in 1..Len(xml_doc.joints) :
           /\ xml_doc.joints[i].child.link # ""
           /\ xml_doc.joints[i].child.link \notin DocLinkNames(xml_doc)

\* C19: a document with an axis, origin or tpose_direction that is not three
\* floating-point numbers is rejected: after a successful construction every
\* axis, tpose_direction and present origin has three components.
C19_XmlVectorsHaveThreeComponents ==
    xml_status = "ready" =>
        \A j \in 1..Len(joints) :
            /\ Len(joints[j].axis) = 3
            /\ Len(joints[j].tpose_direction) = 3
            /\ joints[j].has_origin => Len(joints[j].origin) = 3

ChildrenReturned == pc = "returned" /\ call = "get_children"

\* C20: get_children(b) returns the joints i with parent_indices[i] = b, each
\* once and in ascending order; it returns the empty list for a leaf and for
\* an index that is no joint's parent, and it raises for no index.
C20_GetChildren ==
    /\ call = "get_children" => (pc = "returned" /\ error = "none")
    /\ ChildrenReturned =>
           /\ {ret[k] : k \in 1..Len(ret)} =
                  {i \in 0..(NumBones - 1) : parent_indices[i + 1] = arg.data}
           /\ \A k \in 1..(Len(ret) - 1) : ret[k] < ret[k + 1]
           /\ (\A i \in 0..(NumBones - 1) : parent_indices[i + 1] # arg.data) => ret = <<>>
           /\ bone_names = BoneNameTable
           /\ parent_indices = ParentIndexTable

C20_Witness ==
    /\ ChildrenReturned
    /\ Len(ret) >= 4

\* a call of get_tpose_parent_to_child_direction has returned
DirectionReturned == pc = "returned" /\ call = "get_tpose_parent_to_child_direction"

\* the deepest joint of the tree
TreeDepth == CHOOSE d \in 0..NumBones :
                 /\ \E i \in 0..(NumBones - 1) : Depth(i) = d
                 /\ \A i \in 0..(NumBones - 1) : Depth(i) <= d

\* C21: for every pair of integers, adjacent in the tree or not, in range or
\* not, get_tpose_parent_to_child_direction returns one 3-vector of numbers,
\* the one the pair determines, and the twist lookup makes no more nested
\* calls than the tree is deep.
C21_DirectionTotal ==
    DirectionReturned =>
        /\ Len(ret) = 3
        /\ \A k \in 1..3 : ret[k] \in Int
        /\ ret = tpose_direction(BoneNameTable, ParentIndexTable, arg.data[1], arg.data[2])
        /\ tpose_activations(bone_names, parent_indices, arg.data[1], arg.data[2]) - 1
               <= TreeDepth
        /\ ~index_out_of_range(bone_names, arg.data[1], arg.data[2]) =>
               tpose_activations(bone_names, parent_indices, arg.data[1], arg.data[2]) - 1
                   <= Depth(arg.data[1])

C21_Witness ==
    /\ DirectionReturned
    /\ ~index_out_of_range(bone_names, arg.data[1], arg.data[2])
    /\ parent_indices[arg.data[2] + 1] # arg.data[1]
    /\ tpose_activations(bone_names, parent_indices, arg.data[1], arg.data[2]) >= 3

\* the call asked for the connection of the table that ends in a twist bone
TwistConnectionReturned ==
    /\ DirectionReturned
    /\ ~index_out_of_range(bone_names, arg.data[1], arg.data[2])
    /\ Contains(bone_names[arg.data[2] + 1], s_twist)
    /\ arg.data[1] = parent_indices[arg.data[2] + 1]

\* C22: the reference direction of a twist connection (p, c) of the table is
\* the reference direction of p's incoming connection: pelvis -> thigh for
\* twist_01_thigh_l and twist_01_thigh_r, clavicle_l -> upperarm_l for
\* twist_01_upperarm_l.
C22_TwistInherits ==
    TwistConnectionReturned =>
        /\ ret = get_tpose_parent_to_child_direction(
                     parent_indices[arg.data[1] + 1], arg.data[1])
        /\ arg.data[2] \in {65, 66} => ret = DirDown
        /\ arg.data[2] = 67 => ret = DirLeft

C22_Witness == TwistConnectionReturned /\ arg.data[2] = 67
\* the branch a returned quaternion shows
Branch(q) ==
    IF q[1] = 0 THEN "half_turn" ELSE IF q = <<ONE, 0, 0, 0>> THEN "identity" ELSE "general"

\* C23: on every pair of vectors quaternion_from_vectors_optimized returns
\* the quaternion quaternion_from_vectors_standard returns, within tolerance,
\* and both take the same branch: the antiparallel fallback, the identity or
\* the general formula.
C23_OptimizedMatchesStandard ==
    (VecCalled /\ call = "quaternion_from_vectors_optimized") =>
        /\ QuatClose(vec_q, quaternion_from_vectors_standard(vec_from, vec_to))
        /\ Branch(vec_q) = Branch(quaternion_from_vectors_standard(vec_from, vec_to))
        /\ Branch(vec_q) = IF VecAntiparallel THEN "half_turn"
                           ELSE IF VecParallel THEN "identity" ELSE "general"

C23_Witness ==
    /\ VecCalled
    /\ call = "quaternion_from_vectors_optimized"
    /\ Branch(vec_q) = "general"
    /\ vec_q # quaternion_from_vectors_standard(vec_from, vec_to)
\* a direct call of quaternion_multiply has returned
MultiplyReturned == pc = "returned" /\ call = "quaternion_multiply"

QuatI == <<0, ONE, 0, 0>>
QuatJ == <<0, 0, ONE, 0>>
QuatK == <<0, 0, 0, ONE>>

\* C26: quaternion_multiply is the Hamilton product on (w, x, y, z): i*j = k
\* and j*i = -k, (1,0,0,0) is a two-sided identity, the product is
\* associative within tolerance, and conjugate(q) * q = (|q|^2, 0, 0, 0)
\* within tolerance.
C26_HamiltonProduct ==
    MultiplyReturned =>
        LET q1 == arg.data[1]
            q2 == arg.data[2]
        IN  /\ (q1 = QuatI /\ q2 = QuatJ) => ret = QuatK
            /\ (q1 = QuatJ /\ q2 = QuatI) => ret = <<0, 0, 0, 0 - ONE>>
            /\ (q1 = QuatJ /\ q2 = QuatK) => ret = QuatI
            /\ (q1 = QuatK /\ q2 = QuatI) => ret = QuatJ
            /\ q1 = <<ONE, 0, 0, 0>> => ret = q2
            /\ q2 = <<ONE, 0, 0, 0>> => ret = q1
            /\ \A q3 \in QuaternionInputs :
                   QuatClose(quaternion_multiply(ret, q3),
                             quaternion_multiply(q1, quaternion_multiply(q2, q3)))
            /\ q1 = quaternion_conjugate(q2) =>
                   QuatClose(ret, <<dot4(q2, q2), 0, 0, 0>>)

C26_Witness ==
    /\ MultiplyReturned
    /\ arg.data[1] = quaternion_conjugate(arg.data[2])
    /\ ~IsUnitQuat(arg.data[2])
    /\ ret[1] > ONE
\* the joints on the way from joint i to the top of a parent table, n steps at most
RECURSIVE AncestorsWithin(_, _, _)
AncestorsWithin(parents, i, n) ==
    IF n = 0 \/ i < 0 \/ i >= Len(parents)
    THEN {}
    ELSE {i} \cup AncestorsWithin(parents, parents[i + 1], n - 1)

\* a parent table that is a tree rooted in joint 0
RootedTree(parents) ==
    /\ parents[1] = 0 - 1
    /\ \A i \in 1..(Len(parents) - 1) :
           /\ parents[i + 1] \in 0..(Len(parents) - 1)
           /\ 0 \in AncestorsWithin(parents, i, Len(parents))

\* C24: the hardcoded parent table has joint 0 as its one root and gives every
\* other joint a parent that is in range and strictly smaller than the joint;
\* so, while world_to_local_quaternions runs, the slots of the joints before
\* bone_idx are written and the others are not, the parent of the joint about
\* to be processed is among the written ones, and each step computes the
\* local quaternion from the parent slot as it was written before the step.
C24_ParentsComeFirst ==
    /\ [](/\ parent_indices = ParentIndexTable
          /\ parent_indices[1] = 0 - 1
          /\ \A i \in 1..(NumBones - 1) :
                 parent_indices[i + 1] >= 0 /\ parent_indices[i + 1] < i
          /\ RootedTree(parent_indices))
    /\ [](pc = "bone_loop" =>
             /\ \A c \in 1..(NumBones - 1) :
                    (c < bone_idx) <=> (world_quaternions[c] # ZeroQuat)
             /\ (bone_idx < NumBones /\ parent_indices[bone_idx + 1] # 0) =>
                    world_quaternions[parent_indices[bone_idx + 1]] # ZeroQuat)
    /\ [][(pc = "bone_loop" /\ bone_idx' = bone_idx + 1 /\ parent_indices[bone_idx + 1] # 0) =>
              /\ world_quaternions[parent_indices[bone_idx + 1]] =
                     WorldOrientation(world_positions, parent_indices[bone_idx + 1])
              /\ world_quaternions'[parent_indices[bone_idx + 1]] =
                     world_quaternions[parent_indices[bone_idx + 1]]
              /\ local_quaternions'[bone_idx] =
                     quaternion_multiply(
                         quaternion_conjugate(world_quaternions[parent_indices[bone_idx + 1]]),
                         world_quaternions'[bone_idx])
        ]_vars

C24_Witness ==
    /\ pc = "bone_loop"
    /\ bone_idx = NumBones
    /\ world_quaternions[parent_indices[NumBones]] # <<ONE, 0, 0, 0>>
    /\ local_quaternions[NumBones - 1] # world_quaternions[NumBones - 1]

\* C25: for a parent table that is a rooted tree, one in which a joint's
\* parent has the larger index included, the connection
\* world_to_local_quaternions has just processed has for local quaternion its
\* world orientation when its parent is the root, and otherwise
\* conjugate(W_parent) * W_this with W_parent the world orientation of the
\* parent's incoming connection.
C25_OrderFromTree ==
    (/\ RootedTree(parent_indices)
     /\ pc = "bone_loop"
     /\ call = "world_to_local_quaternions"
     /\ bone_idx > 1)
        => local_quaternions[bone_idx - 1] =
               IF parent_indices[bone_idx] = 0
               THEN WorldOrientation(world_positions, bone_idx - 1)
               ELSE quaternion_multiply(
                        quaternion_conjugate(
                            WorldOrientation(world_positions, parent_indices[bone_idx])),
                        WorldOrientation(world_positions, bone_idx - 1))
\* C27: validate_structure returns True for every topology the parser parsed:
\* after _create_indices every joint index is in range and a wrong root count
\* is only printed, so QuaternionSolverXML.__init__ fails only with the
\* parser's exception and never with its own validation error.
C27_ValidationNeverFails ==
    xml_status # "none" =>
        /\ parse_urdf(xml_doc).error = "none" =>
               /\ \A j \in 1..Len(parse_urdf(xml_doc).value.joints) :
                      /\ parse_urdf(xml_doc).value.joints[j].parent_index
                             \in 0..(Len(parse_urdf(xml_doc).value.links) - 1)
                      /\ parse_urdf(xml_doc).value.joints[j].child_index
                             \in 0..(Len(parse_urdf(xml_doc).value.links) - 1)
               /\ validate_structure(parse_urdf(xml_doc).value.links,
                                     parse_urdf(xml_doc).value.joints)
               /\ xml_status = "ready"
               /\ links = parse_urdf(xml_doc).value.links
               /\ joints = parse_urdf(xml_doc).value.joints
        /\ xml_status = "failed" =>
               /\ parse_urdf(xml_doc).error # "none"
               /\ error = parse_urdf(xml_doc).error

C27_Witness ==
    /\ xml_status = "ready"
    /\ Len(joints) > 0
    /\ Cardinality(root_links) # 1
    /\ call = "none"
\* two frames give joint c, its parent and, unless the parent is the root,
\* the parent's parent the same positions
AgreeAround(f, g, c) ==
    /\ f[c + 1] = g[c + 1]
    /\ f[parent_indices[c + 1] + 1] = g[parent_indices[c + 1] + 1]
    /\ parent_indices[c + 1] # 0 =>
           f[parent_indices[parent_indices[c + 1] + 1] + 1]
               = g[parent_indices[parent_indices[c + 1] + 1] + 1]

\* C28: two frames that agree on the positions of c, of its parent p and of
\* p's parent (of c and p when p is the root) get the same local quaternion
\* for the connection (p, c), whatever the other positions are.
C28_Locality ==
    AnimationReturned =>
        \A i \in 1..Len(ret), j \in 1..Len(ret), c \in Connections :
            AgreeAround(arg.data[i], arg.data[j], c) => ret[i][c] = ret[j][c]

C28_Witness ==
    /\ AnimationReturned
    /\ Len(ret) = 2
    /\ ret[1][1] # ret[2][1]
    /\ \E c \in Connections :
           /\ parent_indices[c + 1] # 0
           /\ AgreeAround(arg.data[1], arg.data[2], c)
           /\ ret[1][c] # <<ONE, 0, 0, 0>>
           /\ \E k \in 1..NumBones :
                  /\ sub(arg.data[1][k], arg.data[2][k]) # ZeroVec
                  /\ sub(arg.data[1][k], arg.data[2][k])
                         # sub(arg.data[1][1], arg.data[2][1])

\* frame g is frame f with one offset added to every position
Translated(f, g) ==
    \A k \in 1..NumBones : sub(g[k], f[k]) = sub(g[1], f[1])

\* C29: a frame and the frame with the same offset added to all 68 positions
\* get the same output from world_to_local_quaternions.
C29_TranslationInvariance ==
    AnimationReturned =>
        \A i \in 1..Len(ret), j \in 1..Len(ret) :
            Translated(arg.data[i], arg.data[j]) => ret[i] = ret[j]

C29_Witness ==
    /\ AnimationReturned
    /\ Len(ret) = 2
    /\ Translated(arg.data[1], arg.data[2])
    /\ arg.data[1][1] = ZeroVec
    /\ arg.data[2][1] # ZeroVec
    /\ \E c \in Connections : ret[1][c] # <<ONE, 0, 0, 0>>
EndsWith(name, suffix) ==
    /\ Len(name) >= Len(suffix)
    /\ SubSeq(name, Len(name) - Len(suffix) + 1, Len(name)) = suffix

\* the name with a final "_l" turned into "_r"
Mirror(name) ==
    IF EndsWith(name, s_l) THEN Append(SubSeq(name, 1, Len(name) - 1), "r") ELSE name

\* the connections of the table that carry the mirrored names of connection c
Counterparts(c) ==
    { d \in Connections :
        /\ bone_names[d + 1] = Mirror(bone_names[c + 1])
        /\ bone_names[parent_indices[d + 1] + 1] = Mirror(bone_names[parent_indices[c + 1] + 1]) }

\* the call asked for a connection of the table whose child name ends in "_l"
LeftConnectionReturned ==
    /\ DirectionReturned
    /\ arg.data[2] \in Connections
    /\ arg.data[1] = parent_indices[arg.data[2] + 1]
    /\ EndsWith(bone_names[arg.data[2] + 1], s_l)

\* C30: the reference direction of the right-hand counterpart of a left
\* connection of the table is the left one with its X component negated:
\* (-1,0,0) and (1,0,0) for the clavicle, arm and finger chains,
\* (-0.5,0,0.866) and (0.5,0,0.866) for the thumbs, (0,-1,0) for both legs.
C30_MirrorSymmetry ==
    LeftConnectionReturned =>
        /\ \A d \in Counterparts(arg.data[2]) :
               get_tpose_parent_to_child_direction(parent_indices[d + 1], d)
                   = <<0 - ret[1], ret[2], ret[3]>>
        /\ arg.data[2] \in (7..10) \cup (14..25) =>
               (ret = <<0 - ONE, 0, 0>> /\ Counterparts(arg.data[2]) = {arg.data[2] + 19})
        /\ arg.data[2] \in 11..13 =>
               (ret = <<0 - fdiv(1, 2), 0, fdiv(866, 1000)>>
                   /\ Counterparts(arg.data[2]) = {arg.data[2] + 19})
        /\ arg.data[2] \in 45..47 =>
               (ret = <<0, 0 - ONE, 0>> /\ Counterparts(arg.data[2]) = {arg.data[2] + 4})

C30_Witness ==
    /\ LeftConnectionReturned
    /\ arg.data[2] = 11
    /\ Counterparts(11) = {30}
    /\ ret[1] < 0
====
